---- MODULE Spec2Model ----
(***************************************************************************)
(* A model of miami_dade_etl.py: the address normaliser, the column        *)
(* resolver, the date parser, the two loaders, the joiner and main().      *)
(*                                                                         *)
(* A Python str is a sequence of one-character strings (<<"A","P","T">>),  *)
(* so that upper(), strip(), the regular expressions and strptime are      *)
(* computed character by character.  A CSV text is modelled after the csv  *)
(* module has split it: a header (sequence of names) and data rows         *)
(* (sequences of cells); what csv.DictReader builds from them is DictRow.  *)
(* A Python exception is the result [ok |-> FALSE, ...].                   *)
(***************************************************************************)
EXTENDS Integers, Sequences, FiniteSets, TLC

VARIABLES
    pc,          \* where the run is
    addr,        \* normalize_address: the raw address
    norm1,       \* normalize_address(addr)
    norm2,       \* normalize_address(norm1)
    prop_src,    \* what fetch_csv_text finds for the property roll
    mtg_src,     \* what fetch_csv_text finds for the mortgage instruments
    prop_text,   \* main: prop_text
    mtg_text,    \* main: mtg_text
    years,       \* args.years
    today,       \* dt.date.today()
    by_parcel,   \* main: by_parcel
    by_addr,     \* main: by_addr
    mortgages,   \* main: mortgages
    result       \* main: result

vars == <<pc, addr, norm1, norm2, prop_src, mtg_src, prop_text, mtg_text,
          years, today, by_parcel, by_addr, mortgages, result>>

----------------------------------------------------------------------------
(* Characters and the str methods the program uses.                        *)

UpperLetters == <<"A","B","C","D","E","F","G","H","I","J","K","L","M",
                  "N","O","P","Q","R","S","T","U","V","W","X","Y","Z">>
LowerLetters == <<"a","b","c","d","e","f","g","h","i","j","k","l","m",
                  "n","o","p","q","r","s","t","u","v","w","x","y","z">>
DigitChars == <<"0","1","2","3","4","5","6","7","8","9">>

Range(s) == {s[i] : i \in DOMAIN s}

\* F(e), with e evaluated once: inside F its argument is a value.  (An
\* operator argument or a LET definition is evaluated where it is used, so a
\* result that is used many times is bound this way.)
Let(e, F(_)) == CHOOSE r \in {F(v) : v \in {e}} : TRUE

IsUpperAZ(c) == c \in Range(UpperLetters)
IsLowerAZ(c) == c \in Range(LowerLetters)
IsDigit(c) == c \in Range(DigitChars)
\* str.strip() and the regex class \s (the ASCII ones TLA+ can write)
IsSpace(c) == c \in {" ", "\t", "\n", "\r", "\f"}
\* the regex class \w, which decides \b
IsWord(c) == IsUpperAZ(c) \/ IsLowerAZ(c) \/ IsDigit(c) \/ c = "_"

UpperChar(c) ==
    IF IsLowerAZ(c)
    THEN UpperLetters[CHOOSE i \in 1..26 : LowerLetters[i] = c]
    ELSE c
LowerChar(c) ==
    IF IsUpperAZ(c)
    THEN LowerLetters[CHOOSE i \in 1..26 : UpperLetters[i] = c]
    ELSE c

Upper(s) == [i \in 1..Len(s) |-> UpperChar(s[i])]
Lower(s) == [i \in 1..Len(s) |-> LowerChar(s[i])]

Slice(s, from, to) == SubSeq(s, from, to)   \* s[from-1:to] in Python

LStrip(s) ==
    LET k == CHOOSE k \in 0..Len(s) :
                 /\ \A i \in 1..k : IsSpace(s[i])
                 /\ (k < Len(s) => ~IsSpace(s[k+1]))
    IN  Slice(s, k + 1, Len(s))
RStrip(s) ==
    LET k == CHOOSE k \in 0..Len(s) :
                 /\ \A i \in (k+1)..Len(s) : IsSpace(s[i])
                 /\ (k > 0 => ~IsSpace(s[k]))
    IN  Slice(s, 1, k)
Strip(s) == Let(LStrip(s), LAMBDA t : RStrip(t))

RECURSIVE Concat(_)
Concat(ss) == IF ss = <<>> THEN <<>> ELSE Head(ss) \o Concat(Tail(ss))

\* sep.join(parts)
RECURSIVE Join(_, _)
Join(parts, sep) ==
    IF parts = <<>> THEN <<>>
    ELSE IF Len(parts) = 1 THEN parts[1]
    ELSE parts[1] \o sep \o Join(Tail(parts), sep)

\* s.split(" "): the pieces between single spaces, empty ones included
RECURSIVE SplitSpace(_)
SplitSpace(s) ==
    IF \A i \in 1..Len(s) : s[i] # " " THEN <<s>>
    ELSE Let(CHOOSE k \in 1..Len(s) :
                 s[k] = " " /\ \A i \in 1..(k-1) : s[i] # " ",
             LAMBDA k :
                 <<Slice(s, 1, k - 1)>>
                 \o Let(Slice(s, k + 1, Len(s)), LAMBDA rest : SplitSpace(rest)))

\* s.replace("#", " UNIT ")
ReplaceHash(s) ==
    Concat([i \in 1..Len(s) |->
               IF s[i] = "#" THEN <<" ","U","N","I","T"," ">> ELSE <<s[i]>>])

----------------------------------------------------------------------------
(* SUFFIX_MAP, UNIT_PAT, SPACE_PAT                                         *)

SUFFIX_MAP == <<
    << <<"S","T","R","E","E","T">>,             <<"S","T">> >>,
    << <<"S","T">>,                             <<"S","T">> >>,
    << <<"R","O","A","D">>,                     <<"R","D">> >>,
    << <<"R","D">>,                             <<"R","D">> >>,
    << <<"A","V","E","N","U","E">>,             <<"A","V","E">> >>,
    << <<"A","V","E">>,                         <<"A","V","E">> >>,
    << <<"B","O","U","L","E","V","A","R","D">>, <<"B","L","V","D">> >>,
    << <<"B","L","V","D">>,                     <<"B","L","V","D">> >>,
    << <<"D","R","I","V","E">>,                 <<"D","R">> >>,
    << <<"D","R">>,                             <<"D","R">> >>,
    << <<"L","A","N","E">>,                     <<"L","N">> >>,
    << <<"L","N">>,                             <<"L","N">> >>,
    << <<"C","O","U","R","T">>,                 <<"C","T">> >>,
    << <<"C","T">>,                             <<"C","T">> >>,
    << <<"P","L","A","C","E">>,                 <<"P","L">> >>,
    << <<"P","L">>,                             <<"P","L">> >>,
    << <<"T","E","R","R","A","C","E">>,         <<"T","E","R">> >>,
    << <<"T","E","R">>,                         <<"T","E","R">> >>,
    << <<"C","I","R","C","L","E">>,             <<"C","I","R">> >>,
    << <<"C","I","R">>,                         <<"C","I","R">> >> >>

\* SUFFIX_MAP.get(p, p)
SuffixGet(p) ==
    IF \E i \in DOMAIN SUFFIX_MAP : SUFFIX_MAP[i][1] = p
    THEN SUFFIX_MAP[CHOOSE i \in DOMAIN SUFFIX_MAP : SUFFIX_MAP[i][1] = p][2]
    ELSE p
\* [SUFFIX_MAP.get(p, p) for p in parts]
SuffixMapped(parts) ==
    [i \in 1..Len(parts) |-> Let(parts[i], LAMBDA p : SuffixGet(p))]

\* The alternatives of UNIT_PAT's group (?:APT|UNIT|STE|SUITE|#), in order.
UnitKeywords == << <<"A","P","T">>, <<"U","N","I","T">>, <<"S","T","E">>,
                   <<"S","U","I","T","E">>, <<"#">> >>

\* The class [A-Z0-9-] of UNIT_PAT's group 1.
IsUnitChar(c) == IsUpperAZ(c) \/ IsDigit(c) \/ c = "-"

\* \b at the gap before s[i] (i in 1..Len(s)+1).
WordBoundary(s, i) ==
    LET before == i > 1 /\ IsWord(s[i-1])
        after  == i <= Len(s) /\ IsWord(s[i])
    IN  before # after

HasPrefixAt(s, i, k) ==
    /\ i + Len(k) - 1 <= Len(s)
    /\ \A j \in 1..Len(k) : s[i + j - 1] = k[j]

\* The length of the run of whitespace from s[i] on (what a greedy \s* takes).
SpaceRun(s, i) ==
    CHOOSE n \in 0..(Len(s) - i + 1) :
        /\ \A j \in i..(i + n - 1) : IsSpace(s[j])
        /\ (i + n <= Len(s) => ~IsSpace(s[i + n]))

\* The tail \s*([A-Z0-9-]+)\b of UNIT_PAT tried from position j: the pairs
\* <<start of group 1, end of group 1 (exclusive)>> the backtracking visits,
\* and the one it takes first (both quantifiers are greedy).
UnitTails(s, j) ==
    LET ws == SpaceRun(s, j)
    IN  { <<p, e>> \in (j..(j + ws)) \X ((j + 1)..(Len(s) + 1)) :
            /\ e > p
            /\ \A x \in p..(e - 1) : IsUnitChar(s[x])
            /\ WordBoundary(s, e) }
FirstTail(s, j) ==
    Let(UnitTails(s, j), LAMBDA T :
        CHOOSE t \in T : \A u \in T : u[1] < t[1] \/ (u[1] = t[1] /\ u[2] <= t[2]))

\* UNIT_PAT.match at position i: [found, from, to (exclusive), g1from, g1to].
NoMatch == [found |-> FALSE, from |-> 0, to |-> 0, g1from |-> 0, g1to |-> 0]
UnitMatchAt(s, i) ==
    LET Ok(n) == /\ WordBoundary(s, i)
                 /\ HasPrefixAt(s, i, UnitKeywords[n])
                 /\ UnitTails(s, i + Len(UnitKeywords[n])) # {}
    IN  IF \E n \in DOMAIN UnitKeywords : Ok(n)
        THEN Let(CHOOSE n \in DOMAIN UnitKeywords :
                     Ok(n) /\ \A m \in 1..(n - 1) : ~Ok(m),
                 LAMBDA n :
                     Let(FirstTail(s, i + Len(UnitKeywords[n])),
                         LAMBDA t : [found |-> TRUE, from |-> i, to |-> t[2],
                                     g1from |-> t[1], g1to |-> t[2]]))
        ELSE NoMatch

\* UNIT_PAT.search(s) from position pos on: the leftmost match.
UnitSearchFrom(s, pos) ==
    Let({i \in pos..Len(s) : UnitMatchAt(s, i).found}, LAMBDA starts :
        IF starts = {} THEN NoMatch
        ELSE Let(CHOOSE i \in starts : \A k \in starts : i <= k,
                 LAMBDA i : UnitMatchAt(s, i)))
UnitSearch(s) == UnitSearchFrom(s, 1)

\* UNIT_PAT.sub("", s): every non-overlapping match removed, left to right.
RECURSIVE UnitSubFrom(_, _)
UnitSubFrom(s, pos) ==
    Let(UnitSearchFrom(s, pos), LAMBDA m :
        IF m.found
        THEN Slice(s, pos, m.from - 1) \o Let(m.to, LAMBDA next : UnitSubFrom(s, next))
        ELSE Slice(s, pos, Len(s)))
UnitSub(s) == UnitSubFrom(s, 1)

\* re.sub(r"[^A-Z0-9\s]", " ", s)
StripPunct(s) ==
    [i \in 1..Len(s) |->
        IF IsUpperAZ(s[i]) \/ IsDigit(s[i]) \/ IsSpace(s[i]) THEN s[i] ELSE " "]

\* SPACE_PAT.sub(" ", s): each maximal run of whitespace becomes one space.
RECURSIVE SpaceSubFrom(_, _)
SpaceSubFrom(s, i) ==
    IF i > Len(s) THEN <<>>
    ELSE IF IsSpace(s[i])
         THEN <<" ">> \o Let(i + SpaceRun(s, i), LAMBDA next : SpaceSubFrom(s, next))
         ELSE <<s[i]>> \o Let(i + 1, LAMBDA next : SpaceSubFrom(s, next))
SpaceSub(s) == SpaceSubFrom(s, 1)

----------------------------------------------------------------------------
(* normalize_address                                                       *)

\* a = addr.upper().strip().replace("#", " UNIT ")
NormalizeStart(address) ==
    Let(Upper(address), LAMBDA u :
        Let(Strip(u), LAMBDA t : ReplaceHash(t)))

\* unit_match.group(1) if unit_match else ""
UnitOf(a) ==
    Let(UnitSearch(a), LAMBDA unit_match :
        IF unit_match.found
        THEN Slice(a, unit_match.g1from, unit_match.g1to - 1)
        ELSE <<>>)

\* [p for p in SPACE_PAT.sub(" ", a).strip().split(" ") if p], a being
\* re.sub(r"[^A-Z0-9\s]", " ", UNIT_PAT.sub("", a))
PartsOf(a) ==
    Let(UnitSub(a), LAMBDA a1 :
        Let(StripPunct(a1), LAMBDA a2 :
            Let(SpaceSub(a2), LAMBDA a3 :
                Let(Strip(a3), LAMBDA a4 :
                    Let(SplitSpace(a4), LAMBDA pieces :
                        SelectSeq(pieces, LAMBDA p : p # <<>>))))))

normalize_address(address) ==
    Let(NormalizeStart(address), LAMBDA a :
        Let(UnitOf(a), LAMBDA unit :
            Let(PartsOf(a), LAMBDA parts :
                IF parts = <<>> THEN <<>>
                ELSE Let(SuffixMapped(parts)
                         \o (IF unit # <<>>
                             THEN << <<"U","N","I","T"," ">> \o unit >>
                             ELSE <<>>),
                         LAMBDA all : Join(all, <<" ">>)))))

----------------------------------------------------------------------------
(* csv.DictReader and pick_col                                             *)
(*                                                                         *)
(* A row dict is [entries, rest]: entries is the dict in insertion order,  *)
(* each [k |-> name, v |-> value] with v = <<cell>> or v = <<>> for None   *)
(* (DictReader's restval, given to the columns a short row lacks); rest    *)
(* is the list DictReader stores under the key None (its restkey) when a   *)
(* row has more cells than the header, <<>> when there is no such key.     *)

DictSet(entries, k, v) ==
    IF \E i \in DOMAIN entries : entries[i].k = k
    THEN [i \in DOMAIN entries |->
             IF entries[i].k = k THEN [k |-> k, v |-> v] ELSE entries[i]]
    ELSE Append(entries, [k |-> k, v |-> v])

\* dict(zip(fieldnames, row)), then restval for fieldnames[len(row):]
RECURSIVE DictFill(_, _, _, _)
DictFill(entries, header, cells, i) ==
    IF i > Len(header) THEN entries
    ELSE Let(DictSet(entries, header[i],
                     IF i <= Len(cells) THEN <<cells[i]>> ELSE <<>>),
             LAMBDA filled : DictFill(filled, header, cells, i + 1))

DictRow(header, cells) ==
    [entries |-> DictFill(<<>>, header, cells, 1),
     rest    |-> IF Len(cells) > Len(header)
                 THEN SubSeq(cells, Len(header) + 1, Len(cells))
                 ELSE <<>>]

\* The rows csv.DictReader(io.StringIO(text)) yields: empty rows are skipped.
DictReader(text) ==
    Let(SelectSeq(text.rows, LAMBDA r : r # <<>>), LAMBDA kept :
        [i \in 1..Len(kept) |-> DictRow(text.header, kept[i])])

\* What a function returns (ok, with value v) or that it raised.
Returned(v) == [ok |-> TRUE, v |-> v]
Raised == [ok |-> FALSE, v |-> <<>>]

\* lowered.get(name): the original key whose lowered, stripped form is name;
\* of several, the one the dict comprehension saw last.  <<>> stands for None.
LoweredGet(row, name) ==
    Let({i \in DOMAIN row.entries : Strip(Lower(row.entries[i].k)) = name},
        LAMBDA hits :
            IF hits = {} THEN <<>>
            ELSE <<row.entries[CHOOSE i \in hits : \A j \in hits : j <= i].k>>)

\* row.get(key, "")
RowGet(row, key) ==
    row.entries[CHOOSE i \in DOMAIN row.entries : row.entries[i].k = key].v

RECURSIVE PickFrom(_, _, _)
PickFrom(row, candidates, n) ==
    IF n > Len(candidates) THEN Returned(<<>>)
    ELSE Let(LoweredGet(row, Lower(candidates[n])), LAMBDA key :
             IF key # <<>> /\ key[1] # <<>>          \* if key:
             THEN Let(RowGet(row, key[1]), LAMBDA value :
                      IF value = <<>>
                      THEN Raised                    \* None.strip()
                      ELSE Returned(Strip(value[1])))
             ELSE PickFrom(row, candidates, n + 1))

pick_col(row, candidates) ==
    IF row.rest # <<>>
    THEN Raised                                      \* None.lower()
    ELSE PickFrom(row, candidates, 1)

PROP_PARCEL_COLS == <<
    <<"p","a","r","c","e","l","_","i","d">>,
    <<"f","o","l","i","o">>,
    <<"f","o","l","i","o","_","n","u","m","b","e","r">>,
    <<"p","a","r","c","e","l">>,
    <<"p","i","n">> >>
PROP_ADDRESS_COLS == <<
    <<"a","d","d","r","e","s","s">>,
    <<"s","i","t","e","_","a","d","d","r","e","s","s">>,
    <<"p","r","o","p","e","r","t","y","_","a","d","d","r","e","s","s">>,
    <<"s","i","t","u","s","_","a","d","d","r","e","s","s">> >>
PROP_ASSESSED_COLS == <<
    <<"a","s","s","e","s","s","e","d","_","v","a","l","u","e">>,
    <<"a","s","s","e","s","s","e","d">>,
    <<"t","o","t","a","l","_","a","s","s","e","s","s","e","d","_","v","a","l","u","e">>,
    <<"m","a","r","k","e","t","_","v","a","l","u","e">> >>
DOC_TYPE_COLS == <<
    <<"d","o","c","_","t","y","p","e">>,
    <<"d","o","c","u","m","e","n","t","_","t","y","p","e">>,
    <<"d","o","c","t","y","p","e">>,
    <<"d","o","c"," ","t","y","p","e">> >>
RECORDING_DATE_COLS == <<
    <<"r","e","c","o","r","d","i","n","g","_","d","a","t","e">>,
    <<"r","e","c","o","r","d","e","d","_","d","a","t","e">>,
    <<"r","e","c","o","r","d","_","d","a","t","e">>,
    <<"r","e","c","o","r","d","i","n","g"," ","d","a","t","e">> >>
MTG_ADDRESS_COLS == <<
    <<"a","d","d","r","e","s","s">>,
    <<"p","r","o","p","e","r","t","y","_","a","d","d","r","e","s","s">>,
    <<"l","e","g","a","l","_","a","d","d","r","e","s","s">>,
    <<"s","i","t","u","s","_","a","d","d","r","e","s","s">> >>
MTG_PARCEL_COLS == <<
    <<"p","a","r","c","e","l","_","i","d">>,
    <<"f","o","l","i","o">>,
    <<"f","o","l","i","o","_","n","u","m","b","e","r">>,
    <<"p","i","n">>,
    <<"p","a","r","c","e","l">> >>
INSTRUMENT_COLS == <<
    <<"i","n","s","t","r","u","m","e","n","t","_","n","u","m","b","e","r">>,
    <<"i","n","s","t","r","u","m","e","n","t">>,
    <<"c","f","n">>,
    <<"d","o","c","_","n","u","m","b","e","r">> >>
BOOK_PAGE_COLS == <<
    <<"b","o","o","k","_","p","a","g","e">>,
    <<"b","o","o","k","/","p","a","g","e">>,
    <<"b","o","o","k","_","p","a","g","e","_","r","e","f">> >>


----------------------------------------------------------------------------
(* datetime: dates are [y, m, d]; strptime, toordinal, isoformat           *)

IsLeap(y) == y % 4 = 0 /\ (y % 100 # 0 \/ y % 400 = 0)
DaysInMonth(y, m) ==
    IF m = 2 THEN (IF IsLeap(y) THEN 29 ELSE 28)
    ELSE IF m \in {4, 6, 9, 11} THEN 30 ELSE 31
RECURSIVE DaysBeforeMonth(_, _)
DaysBeforeMonth(y, m) ==
    IF m = 1 THEN 0 ELSE DaysBeforeMonth(y, m - 1) + DaysInMonth(y, m - 1)
DaysBeforeYear(y) ==
    (y - 1) * 365 + (y - 1) \div 4 - (y - 1) \div 100 + (y - 1) \div 400
\* date.toordinal(): 0001-01-01 is day 1
ToOrdinal(date) ==
    DaysBeforeYear(date.y) + DaysBeforeMonth(date.y, date.m) + date.d
IsDate(y, m, d) ==
    y \in 1..9999 /\ m \in 1..12 /\ d \in 1..DaysInMonth(y, m)
\* date.max.toordinal()
MaxOrdinal == ToOrdinal([y |-> 9999, m |-> 12, d |-> 31])

DigitVal(c) == (CHOOSE i \in 1..10 : DigitChars[i] = c) - 1
DigitOf(n) == DigitChars[n + 1]
\* int(text) of a field strptime matched: digits, after an optional space
RECURSIVE IntUpTo(_, _)
IntUpTo(s, n) ==
    IF n = 0 THEN 0
    ELSE IF s[n] = " " THEN 0
    ELSE IntUpTo(s, n - 1) * 10 + DigitVal(s[n])
IntOf(s) == IntUpTo(s, Len(s))
\* "%0<width>d" % n
RECURSIVE ZeroPad(_, _)
ZeroPad(n, width) ==
    IF width = 0 THEN <<>>
    ELSE ZeroPad(n \div 10, width - 1) \o <<DigitOf(n % 10)>>

\* date.isoformat()
isoformat(date) ==
    ZeroPad(date.y, 4) \o <<"-">> \o ZeroPad(date.m, 2) \o <<"-">> \o ZeroPad(date.d, 2)

\* The formats parse_date tries, in order; "%Y", "%m", "%d" are directives,
\* every other element is a literal character.
DATE_FORMATS == <<
    <<"%Y", "-", "%m", "-", "%d">>,
    <<"%m", "/", "%d", "/", "%Y">>,
    <<"%Y", "/", "%m", "/", "%d">>,
    <<"%m", "-", "%d", "-", "%Y">> >>

DigitAt(s, p) == p \in 1..Len(s) /\ IsDigit(s[p])
InAt(s, p, chars) == p \in 1..Len(s) /\ s[p] \in chars

\* The lengths a directive's regular expression can take at s[pos], in the
\* order its alternatives are tried:
\*   %Y  \d\d\d\d
\*   %m  1[0-2]|0[1-9]|[1-9]
\*   %d  3[0-1]|[1-2]\d|0[1-9]|[1-9]| [1-9]
FieldLens(directive, s, pos) ==
    LET nz == {"1","2","3","4","5","6","7","8","9"}
    IN  IF directive = "%Y"
        THEN IF \A k \in 0..3 : DigitAt(s, pos + k) THEN <<4>> ELSE <<>>
        ELSE IF directive = "%m"
        THEN (IF \/ InAt(s, pos, {"1"}) /\ InAt(s, pos + 1, {"0","1","2"})
                 \/ InAt(s, pos, {"0"}) /\ InAt(s, pos + 1, nz)
              THEN <<2>> ELSE <<>>)
             \o (IF InAt(s, pos, nz) THEN <<1>> ELSE <<>>)
        ELSE (IF \/ InAt(s, pos, {"3"}) /\ InAt(s, pos + 1, {"0","1"})
                 \/ InAt(s, pos, {"1","2"}) /\ DigitAt(s, pos + 1)
                 \/ InAt(s, pos, {"0"}) /\ InAt(s, pos + 1, nz)
              THEN <<2>> ELSE <<>>)
             \o (IF InAt(s, pos, nz) THEN <<1>> ELSE <<>>)
             \o (IF InAt(s, pos, {" "}) /\ InAt(s, pos + 1, nz) THEN <<2>> ELSE <<>>)

IsDirective(e) == e \in {"%Y", "%m", "%d"}

\* re.match of the format's regular expression at s[pos], from element i on:
\* <<>> when it fails, else <<lens>>, the length each element took in the
\* first match the backtracking finds.
RECURSIVE FmtMatch(_, _, _, _)
FmtMatch(fmt, i, s, pos) ==
    IF i > Len(fmt) THEN << <<>> >>
    ELSE Let(IF IsDirective(fmt[i]) THEN FieldLens(fmt[i], s, pos)
             ELSE IF InAt(s, pos, {fmt[i]}) THEN <<1>> ELSE <<>>,
             LAMBDA cands :
                 Let([n \in DOMAIN cands |->
                         Let(pos + cands[n],
                             LAMBDA next : FmtMatch(fmt, i + 1, s, next))],
                     LAMBDA rest :
                         IF \E n \in DOMAIN cands : rest[n] # <<>>
                         THEN Let(CHOOSE n \in DOMAIN cands :
                                      /\ rest[n] # <<>>
                                      /\ \A k \in 1..(n - 1) : rest[k] = <<>>,
                                  LAMBDA n : << <<cands[n]>> \o rest[n][1] >>)
                         ELSE <<>>))

RECURSIVE SumUpTo(_, _)
SumUpTo(q, n) == IF n = 0 THEN 0 ELSE SumUpTo(q, n - 1) + q[n]
SumSeq(q) == SumUpTo(q, Len(q))

\* dt.datetime.strptime(s, fmt).date(): <<date>>, or <<>> for ValueError
\* (no match, unconverted data remains, or no such day).
FieldOf(s, fmt, lens, directive) ==
    Let(CHOOSE i \in DOMAIN fmt : fmt[i] = directive, LAMBDA i :
        Let(1 + SumSeq(SubSeq(lens, 1, i - 1)), LAMBDA from :
            Let(SubSeq(s, from, from + lens[i] - 1), LAMBDA text : IntOf(text))))
strptime(s, fmt) ==
    Let(FmtMatch(fmt, 1, s, 1), LAMBDA m :
        IF m = <<>> THEN <<>>
        ELSE IF SumSeq(m[1]) # Len(s) THEN <<>>
        ELSE Let([y |-> FieldOf(s, fmt, m[1], "%Y"),
                  m |-> FieldOf(s, fmt, m[1], "%m"),
                  d |-> FieldOf(s, fmt, m[1], "%d")],
                 LAMBDA date :
                     IF IsDate(date.y, date.m, date.d) THEN <<date>> ELSE <<>>))

RECURSIVE ParseWith(_, _)
ParseWith(value, n) ==
    IF n > Len(DATE_FORMATS) THEN <<>>
    ELSE Let(strptime(value, DATE_FORMATS[n]), LAMBDA parsed :
             IF parsed # <<>> THEN parsed ELSE ParseWith(value, n + 1))

\* parse_date: <<date>>, or <<>> for None
parse_date(value) ==
    IF value = <<>> THEN <<>>
    ELSE Let(Strip(value), LAMBDA stripped : ParseWith(stripped, 1))


----------------------------------------------------------------------------
(* dicts keyed by str: functions; <<>> is the empty dict                   *)

DictPut(d, k, v) == [x \in (DOMAIN d) \cup {k} |-> IF x = k THEN v ELSE d[x]]
\* d.get(k): <<value>>, or <<>> for None
DictGet(d, k) == Let(k, LAMBDA key : IF key \in DOMAIN d THEN <<d[key]>> ELSE <<>>)

----------------------------------------------------------------------------
(* load_properties                                                         *)

\* PutIfKey without its test: the record is indexed under any key.
PutAlways(d, k, rec) == DictPut(d, k, rec)

\* "if parcel_id: by_parcel[parcel_id] = rec" and the same for norm_address
PutIfKey(d, k, rec) == IF k # <<>> THEN DictPut(d, k, rec) ELSE d

\* rec, from the three values picked
PropertyRecord(address, parcel_id, assessed) ==
    [address |-> address,
     parcel_id |-> parcel_id,
     assessed_value |-> assessed,
     norm_address |-> normalize_address(address)]

\* One turn of the loop: the indexes after the row, or that pick_col raised.
LoadPropertyRow(idx, row) ==
    Let(<<pick_col(row, PROP_PARCEL_COLS),
          pick_col(row, PROP_ADDRESS_COLS),
          pick_col(row, PROP_ASSESSED_COLS)>>,
        LAMBDA picked :
            IF \E n \in 1..3 : ~picked[n].ok
            THEN [ok |-> FALSE, by_parcel |-> idx.by_parcel, by_addr |-> idx.by_addr]
            ELSE Let(PropertyRecord(picked[2].v, picked[1].v, picked[3].v),
                     LAMBDA rec :
                         [ok |-> TRUE,
                          by_parcel |-> PutIfKey(idx.by_parcel, rec.parcel_id, rec),
                          by_addr |-> PutIfKey(idx.by_addr, rec.norm_address, rec)]))

RECURSIVE LoadPropertyRows(_, _, _)
LoadPropertyRows(idx, rows, i) ==
    IF i > Len(rows) \/ ~idx.ok THEN idx
    ELSE Let(LoadPropertyRow(idx, rows[i]),
             LAMBDA after : LoadPropertyRows(after, rows, i + 1))

\* [ok, by_parcel, by_addr]; ok is FALSE when an exception left the function
load_properties(text) ==
    Let(DictReader(text), LAMBDA rows :
        LoadPropertyRows([ok |-> TRUE, by_parcel |-> <<>>, by_addr |-> <<>>],
                         rows, 1))

----------------------------------------------------------------------------
(* load_mortgages                                                          *)

MORTGAGE == <<"M","O","R","T","G","A","G","E">>

\* IsMortgage without upper()
IsMortgageExact(doc_type) == doc_type = MORTGAGE

\* not (doc_type.upper() != "MORTGAGE")
IsMortgage(doc_type) == Upper(doc_type) = MORTGAGE

\* dt.date.today() - dt.timedelta(days=365 * years), as an ordinal
CutoffOrdinal(now, nyears) == ToOrdinal(now) - 365 * nyears
\* the subtraction raises OverflowError outside date.min .. date.max
CutoffInRange(now, nyears) == CutoffOrdinal(now, nyears) \in 1..MaxOrdinal

\* BeforeCutoff with <= for <
BeforeOrAtCutoff(rec_date, cutoff) == ToOrdinal(rec_date) <= cutoff

\* rec_date < cutoff
BeforeCutoff(rec_date, cutoff) == ToOrdinal(rec_date) < cutoff

\* The record out.append() gets, or that a pick_col raised.
MortgageRecord(row, rec_date) ==
    Let(<<pick_col(row, MTG_ADDRESS_COLS),
          pick_col(row, MTG_PARCEL_COLS),
          pick_col(row, INSTRUMENT_COLS),
          pick_col(row, BOOK_PAGE_COLS)>>,
        LAMBDA picked :
            IF \E n \in 1..4 : ~picked[n].ok THEN <<>>
            ELSE << [address |-> picked[1].v,
                     parcel_id |-> picked[2].v,
                     recording_date |-> isoformat(rec_date),
                     instrument_number |-> picked[3].v,
                     book_page |-> picked[4].v] >>)

\* One turn of the loop: out after the row, or that pick_col raised.
LoadMortgageRow(acc, row, cutoff) ==
    Let(pick_col(row, DOC_TYPE_COLS), LAMBDA doc_type :
        IF ~doc_type.ok THEN [ok |-> FALSE, out |-> acc.out]
        ELSE IF ~IsMortgage(doc_type.v) THEN acc
        ELSE Let(pick_col(row, RECORDING_DATE_COLS), LAMBDA rec_date_raw :
                 IF ~rec_date_raw.ok THEN [ok |-> FALSE, out |-> acc.out]
                 ELSE Let(parse_date(rec_date_raw.v), LAMBDA rec_date :
                          IF rec_date = <<>> THEN acc
                          ELSE IF BeforeCutoff(rec_date[1], cutoff) THEN acc
                          ELSE Let(MortgageRecord(row, rec_date[1]), LAMBDA rec :
                                   IF rec = <<>>
                                   THEN [ok |-> FALSE, out |-> acc.out]
                                   ELSE [ok |-> TRUE,
                                         out |-> Append(acc.out, rec[1])]))))

RECURSIVE LoadMortgageRows(_, _, _, _)
LoadMortgageRows(acc, rows, i, cutoff) ==
    IF i > Len(rows) \/ ~acc.ok THEN acc
    ELSE Let(LoadMortgageRow(acc, rows[i], cutoff),
             LAMBDA after : LoadMortgageRows(after, rows, i + 1, cutoff))

\* [ok, out]; ok is FALSE when an exception left the function
load_mortgages(text, nyears, now) ==
    IF ~CutoffInRange(now, nyears) THEN [ok |-> FALSE, out |-> <<>>]
    ELSE Let(CutoffOrdinal(now, nyears), LAMBDA cutoff :
             Let(DictReader(text), LAMBDA rows :
                 LoadMortgageRows([ok |-> TRUE, out |-> <<>>], rows, 1, cutoff)))

----------------------------------------------------------------------------
(* join_records                                                            *)

\* PropLookup with the two lookups in the other order
PropLookupAddrFirst(m, parcels, addrs) ==
    Let(DictGet(addrs, normalize_address(m.address)), LAMBDA first :
        IF first = <<>> /\ m.parcel_id # <<>> THEN DictGet(parcels, m.parcel_id)
        ELSE first)

\* PropLookup without the address lookup
PropLookupParcelOnly(m, parcels, addrs) ==
    IF m.parcel_id # <<>> THEN DictGet(parcels, m.parcel_id) ELSE <<>>

\* prop: <<record>>, or <<>> for None
PropLookup(m, parcels, addrs) ==
    Let(IF m.parcel_id # <<>> THEN DictGet(parcels, m.parcel_id) ELSE <<>>,
        LAMBDA first :
            IF first = <<>> THEN DictGet(addrs, normalize_address(m.address))
            ELSE first)

\* x or y, for strs
StrOr(x, y) == IF x # <<>> THEN x ELSE y

JoinedRow(m, prop) ==
    [address |-> StrOr(m.address, IF prop # <<>> THEN prop[1].address ELSE <<>>),
     parcel_id |-> StrOr(m.parcel_id, IF prop # <<>> THEN prop[1].parcel_id ELSE <<>>),
     assessed_value |-> IF prop # <<>> THEN prop[1].assessed_value ELSE <<>>,
     mortgage_recorded_date |-> m.recording_date,
     book_page_or_instrument_number |-> StrOr(m.book_page, m.instrument_number)]

\* join_records keeping only the mortgages a property was found for
join_records_matched(ms, parcels, addrs) ==
    Let(SelectSeq(ms, LAMBDA m : PropLookup(m, parcels, addrs) # <<>>),
        LAMBDA found :
            [i \in 1..Len(found) |->
                Let(PropLookup(found[i], parcels, addrs),
                    LAMBDA prop : JoinedRow(found[i], prop))])

join_records(ms, parcels, addrs) ==
    [i \in 1..Len(ms) |->
        Let(PropLookup(ms[i], parcels, addrs), LAMBDA prop : JoinedRow(ms[i], prop))]


----------------------------------------------------------------------------
(* Bounds and the inputs the checks draw from                              *)

MaxPieces == 3      \* an address is at most this many pieces
MaxPropRows == 2    \* data rows of a property text
MaxMtgRows == 2     \* data rows of a mortgage text
MaxJoinRows == 2    \* mortgage records handed to join_records directly
MaxYears == 2       \* --years ranges over 0..MaxYears (and two outliers)

\* Every sequence over S of length at most n.
SeqsUpTo(S, n) == UNION {[1..k -> S] : k \in 0..n}

\* Addresses: up to MaxPieces of these pieces, concatenated.
AddressPieces ==
    { <<"A","P","T">>,
      <<"U","n","i","t">>,
      <<"S","T","E">>,
      <<"#">>,
      <<"R","O","A","D">>,
      <<"r","d">>,
      <<"5">>,
      <<"5","-","B">>,
      <<"-">>,
      <<".">>,
      <<" ">>,
      <<"_">> }
Addresses == {Concat(ps) : ps \in SeqsUpTo(AddressPieces, MaxPieces)}

EmptyText == [header |-> <<>>, rows |-> <<>>]

\* Property texts: a header, and rows of parcel id, address, assessed value;
\* one row is shorter than the header and one longer.
PropHeaders ==
    { << <<"f","o","l","i","o">>, <<"a","d","d","r","e","s","s">>, <<"a","s","s","e","s","s","e","d","_","v","a","l","u","e">> >>,
      << <<" ","P","I","N"," ">>, <<"S","i","t","u","s","_","A","d","d","r","e","s","s">>, <<"M","a","r","k","e","t","_","V","a","l","u","e">> >>,
      << <<"P","a","r","c","e","l">>, <<"o","w","n","e","r">>, <<"a","s","s","e","s","s","e","d">> >> }
PropParcels == { <<>>,
      <<"1">>,
      <<"2">> }
PropAddresses == { <<>>,
      <<"1"," ","R","O","A","D">>,
      <<"1"," ","r","d",".">>,
      <<"A","P","T"," ","5">> }
PropValues == { <<"1","0">>,
      <<"2","0">> }
PropRows ==
    {<<p, a, <<"1","0">> >> : p \in PropParcels, a \in PropAddresses}
    \cup { << <<"1">> >>, << <<"1">>, <<"1"," ","R","O","A","D">>, <<"1","0">>, <<"x">> >> }
PropTexts ==
    {[header |-> h, rows |-> rs] :
        h \in PropHeaders, rs \in SeqsUpTo(PropRows, MaxPropRows)}

\* Mortgage texts: doc type, recording date, address, parcel id, instrument
\* number, book/page.
MtgHeaders ==
    { << <<"d","o","c","_","t","y","p","e">>, <<"r","e","c","o","r","d","i","n","g","_","d","a","t","e">>, <<"a","d","d","r","e","s","s">>, <<"p","a","r","c","e","l","_","i","d">>, <<"i","n","s","t","r","u","m","e","n","t","_","n","u","m","b","e","r">>, <<"b","o","o","k","_","p","a","g","e">> >>,
      << <<" ","D","o","c","u","m","e","n","t","_","T","y","p","e">>, <<"R","e","c","o","r","d","e","d","_","D","a","t","e">>, <<"s","i","t","u","s","_","a","d","d","r","e","s","s">>, <<"P","I","N">>, <<"c","f","n">>, <<"b","o","o","k","/","p","a","g","e">> >> }
MtgDocTypes == { <<"M","o","r","t","g","a","g","e">> }
MtgDates ==
    { <<"2","0","2","4","-","0","3","-","0","1">>,
      <<"2","0","2","4","-","0","2","-","2","9">>,
      <<"3","/","2","/","2","0","2","4">>,
      <<"2","0","2","3","/","0","3","/","0","2">>,
      <<"0","3","-","0","1","-","2","0","2","3">>,
      <<"n","o","t"," ","a"," ","d","a","t","e">>,
      <<"2","0","2","4","-","0","2","-","3","0">> }
OtherDocDates ==
    { <<"2","0","2","4","-","0","3","-","0","1">>,
      <<"3","/","2","/","2","0","2","4">> }
MtgRows ==
    {<<t, d, <<"1"," ","R","o","a","d">>, <<"1">>, <<"I","7">>, <<>>>> :
        t \in MtgDocTypes, d \in MtgDates}
    \cup {<< <<"D","e","e","d">>, d, <<>>, <<"2">>, <<>>, <<"B","9">> >> :
              d \in OtherDocDates}
    \cup { << <<"M","o","r","t","g","a","g","e">> >> }
MtgTexts ==
    {[header |-> h, rows |-> rs] :
        h \in MtgHeaders, rs \in SeqsUpTo(MtgRows, MaxMtgRows)}

Todays == {[y |-> 2026, m |-> 3, d |-> 1], [y |-> 2024, m |-> 3, d |-> 1]}
\* --years: the window sizes, a negative one, and one that overflows date
YearsChoices == (0..MaxYears) \cup {-1, 3000}


\* The texts of the whole-run check: fewer rows to choose from.
RunPropRows ==
    {<<p, a, v>> : p \in { <<>>, <<"1">> },
                   a \in { <<"1"," ","R","O","A","D">>, <<"2"," ","R","D">> },
                   v \in PropValues}
    \cup { << <<"1">> >> }
RunPropTexts ==
    {[header |-> << <<"f","o","l","i","o">>, <<"a","d","d","r","e","s","s">>, <<"a","s","s","e","s","s","e","d","_","v","a","l","u","e">> >>, rows |-> rs] :
        rs \in SeqsUpTo(RunPropRows, MaxPropRows)}
RunMtgRows ==
    {<<<<"M","o","r","t","g","a","g","e">>, <<"2","0","2","4","-","0","3","-","0","1">>, a, p, <<"I","7">>, <<>>>> :
        a \in { <<>>, <<"1"," ","R","o","a","d">> },
        p \in { <<>>, <<"1">> }}
    \cup { << <<"D","e","e","d">>, <<"2","0","2","4","-","0","3","-","0","1">>, <<"1"," ","R","o","a","d">>, <<"1">>, <<"I","7">>, <<>> >>,
           << <<"M","o","r","t","g","a","g","e">>, <<"2","0","2","4","-","0","3","-","0","1">>, <<"1"," ","R","o","a","d">>, <<"1">>, <<"I","7">>, <<>>, <<"x">> >> }
RunMtgTexts ==
    {[header |-> << <<"d","o","c","_","t","y","p","e">>, <<"r","e","c","o","r","d","i","n","g","_","d","a","t","e">>, <<"a","d","d","r","e","s","s">>, <<"p","a","r","c","e","l","_","i","d">>, <<"i","n","s","t","r","u","m","e","n","t","_","n","u","m","b","e","r">>, <<"b","o","o","k","_","p","a","g","e">> >>,
      rows |-> rs] : rs \in SeqsUpTo(RunMtgRows, MaxMtgRows)}

\* Mortgage records and indexes handed to join_records directly: any list,
\* any two dicts (not only those load_properties builds).
JoinMortgages ==
    {[address |-> a, parcel_id |-> p, recording_date |-> d,
      instrument_number |-> <<"I","7">>, book_page |-> <<>>] :
        a \in { <<>>, <<"1"," ","R","o","a","d">> },
        p \in { <<>>, <<"1">>, <<"9">> },
        d \in { <<"2","0","2","4","-","0","3","-","0","1">>,
                <<"2","0","2","5","-","0","1","-","0","1">> }}
JoinProperties ==
    { [address |-> <<"1"," ","R","O","A","D">>, parcel_id |-> <<"1">>, assessed_value |-> <<"1","0">>, norm_address |-> <<"1"," ","R","D">>],
      [address |-> <<"1"," ","r","d">>, parcel_id |-> <<"2">>, assessed_value |-> <<"2","0">>, norm_address |-> <<"1"," ","R","D">>] }
DictsOver(keys, values) == UNION {[ks -> values] : ks \in SUBSET keys}
JoinParcelIndexes == DictsOver({ <<"1">> }, JoinProperties)
JoinAddrIndexes == DictsOver({ <<"1"," ","R","D">>, <<>> }, JoinProperties)

----------------------------------------------------------------------------
(* The state machine                                                       *)

NoDate == [y |-> 1, m |-> 1, d |-> 1]

\* main() from its first line.  A source is <<text>>, or <<>> when
\* fetch_csv_text raises for it (no path or URL, unreadable, unreachable).
Init ==
    /\ pc = "start"
    /\ addr = <<>> /\ norm1 = <<>> /\ norm2 = <<>>
    /\ prop_src \in {<<>>} \cup {<<t>> : t \in RunPropTexts}
    /\ mtg_src \in {<<>>} \cup {<<t>> : t \in RunMtgTexts}
    /\ prop_text = EmptyText /\ mtg_text = EmptyText
    /\ years = 2 /\ today = [y |-> 2026, m |-> 3, d |-> 1]
    /\ by_parcel = <<>> /\ by_addr = <<>>
    /\ mortgages = <<>> /\ result = <<>>

\* main: both fetch_csv_text calls return
FetchOk ==
    /\ pc = "start"
    /\ prop_src # <<>> /\ mtg_src # <<>>
    /\ prop_text' = prop_src[1]
    /\ mtg_text' = mtg_src[1]
    /\ pc' = "fetched"
    /\ UNCHANGED <<addr, norm1, norm2, prop_src, mtg_src, years, today,
                   by_parcel, by_addr, mortgages, result>>

\* main: a fetch_csv_text call raises; "Input load failed", return 1
FetchFail ==
    /\ pc = "start"
    /\ ~(prop_src # <<>> /\ mtg_src # <<>>)
    /\ pc' = "input_load_failed"
    /\ UNCHANGED <<addr, norm1, norm2, prop_src, mtg_src, prop_text, mtg_text,
                   years, today, by_parcel, by_addr, mortgages, result>>

\* main: by_parcel, by_addr = load_properties(prop_text)
LoadProperties ==
    /\ pc = "fetched"
    /\ \E r \in {load_properties(prop_text)} :
           IF r.ok
           THEN /\ by_parcel' = r.by_parcel
                /\ by_addr' = r.by_addr
                /\ pc' = "properties_loaded"
           ELSE /\ UNCHANGED <<by_parcel, by_addr>>
                /\ pc' = "aborted"
    /\ UNCHANGED <<addr, norm1, norm2, prop_src, mtg_src, prop_text, mtg_text,
                   years, today, mortgages, result>>

\* main: mortgages = load_mortgages(mtg_text, args.years)
LoadMortgages ==
    /\ pc = "properties_loaded"
    /\ \E r \in {load_mortgages(mtg_text, years, today)} :
           IF r.ok
           THEN /\ mortgages' = r.out
                /\ pc' = "mortgages_loaded"
           ELSE /\ UNCHANGED mortgages
                /\ pc' = "aborted"
    /\ UNCHANGED <<addr, norm1, norm2, prop_src, mtg_src, prop_text, mtg_text,
                   years, today, by_parcel, by_addr, result>>

\* main: result = join_records(mortgages, by_parcel, by_addr)
JoinRecords ==
    /\ pc = "mortgages_loaded"
    /\ result' = join_records(mortgages, by_parcel, by_addr)
    /\ pc' = "joined"
    /\ UNCHANGED <<addr, norm1, norm2, prop_src, mtg_src, prop_text, mtg_text,
                   years, today, by_parcel, by_addr, mortgages>>

\* main: the rows are written, "Wrote n rows", return 0
WriteOutput ==
    /\ pc = "joined"
    /\ pc' = "written"
    /\ UNCHANGED <<addr, norm1, norm2, prop_src, mtg_src, prop_text, mtg_text,
                   years, today, by_parcel, by_addr, mortgages, result>>

Next ==
    \/ FetchOk
    \/ FetchFail
    \/ LoadProperties
    \/ LoadMortgages
    \/ JoinRecords
    \/ WriteOutput

Spec == Init /\ [][Next]_vars

----------------------------------------------------------------------------
(* normalize_address alone: applied to an address, then to its own result  *)

InitNorm ==
    /\ pc = "address"
    /\ addr \in Addresses
    /\ norm1 = <<>> /\ norm2 = <<>>
    /\ prop_src = <<>> /\ mtg_src = <<>>
    /\ prop_text = EmptyText /\ mtg_text = EmptyText
    /\ years = 0 /\ today = NoDate
    /\ by_parcel = <<>> /\ by_addr = <<>>
    /\ mortgages = <<>> /\ result = <<>>

NormalizeOnce ==
    /\ pc = "address"
    /\ norm1' = normalize_address(addr)
    /\ pc' = "normalized"
    /\ UNCHANGED <<addr, norm2, prop_src, mtg_src, prop_text, mtg_text, years,
                   today, by_parcel, by_addr, mortgages, result>>

NormalizeAgain ==
    /\ pc = "normalized"
    /\ norm2' = normalize_address(norm1)
    /\ pc' = "renormalized"
    /\ UNCHANGED <<addr, norm1, prop_src, mtg_src, prop_text, mtg_text, years,
                   today, by_parcel, by_addr, mortgages, result>>

NextNorm == NormalizeOnce \/ NormalizeAgain

SpecNorm == InitNorm /\ [][NextNorm]_vars

----------------------------------------------------------------------------
(* load_properties alone, on any property text                             *)

InitProps ==
    /\ pc = "fetched"
    /\ prop_text \in PropTexts
    /\ addr = <<>> /\ norm1 = <<>> /\ norm2 = <<>>
    /\ prop_src = <<>> /\ mtg_src = <<>>
    /\ mtg_text = EmptyText
    /\ years = 0 /\ today = NoDate
    /\ by_parcel = <<>> /\ by_addr = <<>>
    /\ mortgages = <<>> /\ result = <<>>

NextProps == LoadProperties

SpecProps == InitProps /\ [][NextProps]_vars

----------------------------------------------------------------------------
(* load_mortgages alone, on any mortgage text, window and day              *)

InitMtg ==
    /\ pc = "properties_loaded"
    /\ mtg_text \in MtgTexts
    /\ years \in YearsChoices
    /\ today \in Todays
    /\ addr = <<>> /\ norm1 = <<>> /\ norm2 = <<>>
    /\ prop_src = <<>> /\ mtg_src = <<>>
    /\ prop_text = EmptyText
    /\ by_parcel = <<>> /\ by_addr = <<>>
    /\ mortgages = <<>> /\ result = <<>>

NextMtg == LoadMortgages

SpecMtg == InitMtg /\ [][NextMtg]_vars

----------------------------------------------------------------------------
(* join_records alone, on any mortgage list and any two indexes            *)

InitJoin ==
    /\ pc = "mortgages_loaded"
    /\ mortgages \in SeqsUpTo(JoinMortgages, MaxJoinRows)
    /\ by_parcel \in JoinParcelIndexes
    /\ by_addr \in JoinAddrIndexes
    /\ addr = <<>> /\ norm1 = <<>> /\ norm2 = <<>>
    /\ prop_src = <<>> /\ mtg_src = <<>>
    /\ prop_text = EmptyText /\ mtg_text = EmptyText
    /\ years = 0 /\ today = NoDate
    /\ result = <<>>

NextJoin == JoinRecords \/ WriteOutput

SpecJoin == InitJoin /\ [][NextJoin]_vars


----------------------------------------------------------------------------
(* The claims                                                              *)

Joined == pc \in {"joined", "written"}

\* C1: join_records returns one row per mortgage record, in the same
\* order: the list has the length of the mortgage list and row i carries
\* the recording date (and the instrument reference) of mortgage i, whether
\* or not a property was found for it.
C1_OneRowPerMortgage ==
    Joined =>
        /\ Len(result) = Len(mortgages)
        /\ \A i \in 1..Len(mortgages) :
               /\ result[i].mortgage_recorded_date = mortgages[i].recording_date
               /\ result[i].book_page_or_instrument_number
                      = StrOr(mortgages[i].book_page, mortgages[i].instrument_number)

\* Two mortgages of different dates, one with a property and one without.
C1_Witness ==
    /\ Joined
    /\ Len(mortgages) = 2
    /\ mortgages[1].recording_date # mortgages[2].recording_date
    /\ result[1].assessed_value = <<>>
    /\ result[2].assessed_value # <<>>

\* C2: a mortgage whose non-empty parcel id is a key of by_parcel gets the
\* assessed value of by_parcel[parcel id], whatever by_addr holds under its
\* normalized address.
C2_ParcelMatchWins ==
    Joined =>
        \A i \in 1..Len(mortgages) :
            (mortgages[i].parcel_id # <<>> /\ mortgages[i].parcel_id \in DOMAIN by_parcel)
            => result[i].assessed_value
                   = by_parcel[mortgages[i].parcel_id].assessed_value

\* A mortgage found by parcel id while by_addr holds, under its normalized
\* address, a property of another assessed value.
C2_Witness ==
    /\ Joined
    /\ \E i \in 1..Len(mortgages) :
           /\ mortgages[i].parcel_id # <<>>
           /\ mortgages[i].parcel_id \in DOMAIN by_parcel
           /\ normalize_address(mortgages[i].address) \in DOMAIN by_addr
           /\ by_addr[normalize_address(mortgages[i].address)].assessed_value
                  # by_parcel[mortgages[i].parcel_id].assessed_value

NoParcelMatch(m) == m.parcel_id = <<>> \/ m.parcel_id \notin DOMAIN by_parcel

\* C7: a mortgage whose parcel id is empty or no key of by_parcel gets the
\* assessed value of by_addr[normalize_address(its address)]; when there is
\* no such entry its assessed value is empty and its parcel id its own.
C7_AddressFallback ==
    Joined =>
        \A i \in 1..Len(mortgages) :
            NoParcelMatch(mortgages[i]) =>
                Let(normalize_address(mortgages[i].address), LAMBDA key :
                    IF key \in DOMAIN by_addr
                    THEN result[i].assessed_value = by_addr[key].assessed_value
                    ELSE /\ result[i].assessed_value = <<>>
                         /\ result[i].parcel_id = mortgages[i].parcel_id)

\* One mortgage with an unknown parcel id found by address, another with an
\* unknown parcel id found by neither.
C7_Witness ==
    /\ Joined
    /\ \E i, j \in 1..Len(mortgages) :
           /\ mortgages[i].parcel_id # <<>>
           /\ NoParcelMatch(mortgages[i])
           /\ normalize_address(mortgages[i].address) \in DOMAIN by_addr
           /\ result[i].assessed_value # <<>>
           /\ mortgages[j].parcel_id # <<>>
           /\ NoParcelMatch(mortgages[j])
           /\ normalize_address(mortgages[j].address) \notin DOMAIN by_addr
           /\ result[j].parcel_id = mortgages[j].parcel_id

\* What load_mortgages compares the dates with.
Cutoff == CutoffOrdinal(today, years)
MortgagesLoaded == pc = "mortgages_loaded"
RecordedDates == {mortgages[i].recording_date : i \in 1..Len(mortgages)}

\* Of a row of mtg_text: whether its doc type, uppercased, is MORTGAGE,
\* whether its recording date parses, and then the date and its ordinal.
RowFacts(row) ==
    Let(pick_col(row, DOC_TYPE_COLS), LAMBDA doc :
        Let(parse_date(pick_col(row, RECORDING_DATE_COLS).v), LAMBDA date :
            [row |-> row,
             mortgage |-> Upper(doc.v) = MORTGAGE,
             dated |-> date # <<>>,
             date |-> IF date # <<>> THEN date[1] ELSE NoDate,
             day |-> IF date # <<>> THEN ToOrdinal(date[1]) ELSE 0]))
MortgageRowFacts ==
    Let(DictReader(mtg_text), LAMBDA rows : [i \in DOMAIN rows |-> RowFacts(rows[i])])
\* A dated MORTGAGE row recorded some days after the cutoff.
At(fact, days) == fact.mortgage /\ fact.dated /\ fact.day = Cutoff + days
Included(fact) == isoformat(fact.date) \in RecordedDates

\* C3 as stated: a MORTGAGE row dated exactly 365*years days before today
\* is excluded from the result, and one dated a day later is included.
C3_BoundaryExcluded ==
    MortgagesLoaded =>
        Let(MortgageRowFacts, LAMBDA facts :
            \A i \in DOMAIN facts :
                /\ At(facts[i], 0) => ~Included(facts[i])
                /\ At(facts[i], 1) => Included(facts[i]))

\* C3 amended: whenever load_mortgages returns, a MORTGAGE row dated exactly
\* 365*years days before today is included in the result, as is one dated
\* a day later; a row dated a day earlier is excluded.
C3_BoundaryIncluded ==
    MortgagesLoaded =>
        Let(MortgageRowFacts, LAMBDA facts :
            \A i \in DOMAIN facts :
                /\ At(facts[i], 0) => Included(facts[i])
                /\ At(facts[i], 1) => Included(facts[i])
                /\ At(facts[i], -1) => ~Included(facts[i]))

\* A text with a row on the cutoff day and a row of the day before, in a
\* window of at least a year.
C3_Witness ==
    /\ MortgagesLoaded
    /\ years >= 1
    /\ Len(mortgages) = 1
    /\ Let(MortgageRowFacts, LAMBDA facts :
            /\ \E i \in DOMAIN facts : At(facts[i], 0)
            /\ \E i \in DOMAIN facts : At(facts[i], -1))

\* The row is one load_mortgages is to keep: doc type MORTGAGE once
\* uppercased, a date one of the formats parses, not before the cutoff.
Kept(fact) == fact.mortgage /\ fact.dated /\ fact.day >= Cutoff

\* C9: load_mortgages returns, in row order, one record for each row whose
\* doc type uppercased is MORTGAGE and whose date parses to a date not
\* before the cutoff, and none for any other row.
C9_FilteredInOrder ==
    MortgagesLoaded =>
        Let(SelectSeq(MortgageRowFacts, Kept), LAMBDA kept :
            /\ Len(mortgages) = Len(kept)
            /\ \A i \in 1..Len(kept) :
                   /\ mortgages[i].recording_date = isoformat(kept[i].date)
                   /\ mortgages[i].address = pick_col(kept[i].row, MTG_ADDRESS_COLS).v
                   /\ mortgages[i].parcel_id = pick_col(kept[i].row, MTG_PARCEL_COLS).v)

\* A kept row after a row that is dropped although its date is in the
\* window (another doc type) or because its date does not parse.
C9_Witness ==
    /\ MortgagesLoaded
    /\ Len(mortgages) = 1
    /\ Let(MortgageRowFacts, LAMBDA facts :
            /\ Len(facts) = 2
            /\ Kept(facts[2])
            /\ \/ ~facts[1].mortgage /\ facts[1].dated /\ facts[1].day >= Cutoff
               \/ facts[1].mortgage /\ ~facts[1].dated)

PropertiesLoaded == pc = "properties_loaded"
\* Of a row of prop_text: its parcel id, its address and the address
\* normalized.
PropertyRowKeys ==
    Let(DictReader(prop_text), LAMBDA rows :
        [i \in DOMAIN rows |->
            Let(pick_col(rows[i], PROP_ADDRESS_COLS).v, LAMBDA address :
                [parcel_id |-> pick_col(rows[i], PROP_PARCEL_COLS).v,
                 address |-> address,
                 norm_address |-> normalize_address(address)])])

\* C8: the indexes load_properties returns have no empty key, and a row with
\* one empty key is still indexed under its other key.
C8_NoEmptyKey ==
    PropertiesLoaded =>
        /\ <<>> \notin DOMAIN by_parcel
        /\ <<>> \notin DOMAIN by_addr
        /\ Let(PropertyRowKeys, LAMBDA keys :
               \A i \in DOMAIN keys :
                   /\ (keys[i].parcel_id = <<>> /\ keys[i].norm_address # <<>>)
                          => keys[i].norm_address \in DOMAIN by_addr
                   /\ (keys[i].parcel_id # <<>> /\ keys[i].norm_address = <<>>)
                          => keys[i].parcel_id \in DOMAIN by_parcel)

\* A row with no parcel id but an address, and a row with a parcel id whose
\* non-empty address normalizes to the empty string.
C8_Witness ==
    /\ PropertiesLoaded
    /\ Let(PropertyRowKeys, LAMBDA keys :
           \E i, j \in DOMAIN keys :
               /\ keys[i].parcel_id = <<>>
               /\ keys[i].norm_address \in DOMAIN by_addr
               /\ keys[j].parcel_id \in DOMAIN by_parcel
               /\ keys[j].address # <<>>
               /\ keys[j].norm_address = <<>>)

\* C4: normalize_address(normalize_address(x)) = normalize_address(x).
C4_Idempotent == pc = "renormalized" => norm2 = norm1

\* Uppercase letters, digits and single spaces only: no other character,
\* no space at either end, no two spaces in a row.
IsCanonical(s) ==
    /\ \A i \in 1..Len(s) : IsUpperAZ(s[i]) \/ IsDigit(s[i]) \/ s[i] = " "
    /\ s # <<>> => (s[1] # " " /\ s[Len(s)] # " ")
    /\ \A i \in 1..(Len(s) - 1) : ~(s[i] = " " /\ s[i + 1] = " ")

\* C5: the result of normalize_address holds only uppercase letters, digits
\* and single spaces.
C5_CanonicalCharacters ==
    pc \in {"normalized", "renormalized"} => IsCanonical(norm1)

\* C6: once both texts are fetched the run never aborts: load_properties,
\* load_mortgages and join_records each return.
C6_NeverAborts == pc # "aborted"

\* C10: a joined row whose parcel id is a key of by_parcel has the assessed
\* value of by_parcel[parcel id].
C10_ParcelValueConsistent ==
    Joined =>
        \A i \in 1..Len(result) :
            result[i].parcel_id \in DOMAIN by_parcel
            => result[i].assessed_value = by_parcel[result[i].parcel_id].assessed_value

====
